---------------------------- MODULE Spec2Model ----------------------------
(***************************************************************************)
(* A state-machine model of lull::EntityFactory                            *)
(* (src/src/lullaby/base/entity_factory.cc): entity id generation, the     *)
(* System registry, blueprint resolution and caching, the two-phase        *)
(* recursive construction of a BlueprintTree, and the deferred             *)
(* destruction queue that is handed over between execution contexts.       *)
(*                                                                         *)
(* Conventions                                                             *)
(*  - A std::(unordered_)map is a function whose DOMAIN is the set of keys  *)
(*    it holds; operator[] on an absent key inserts the value-initialised  *)
(*    value (0, nullptr, "") as it does in C++.                            *)
(*  - A pointer argument is a sequence: <<>> is nullptr, <<x>> points to x.*)
(*  - A std::string is a sequence of one-character strings.                *)
(*  - LOG(ERROR) and LOG(DFATAL) raise a diagnostic and execution goes on  *)
(*    with the statement that follows; CHECK_NE ends the process.          *)
(*  - Calling a virtual method through a null System* is undefined: the    *)
(*    model takes either a crash at the call or a call without effect.     *)
(*  - A registered system-type id is the hash of a type name and is never  *)
(*    the value-initialised TypeId 0.                                      *)
(***************************************************************************)
EXTENDS Integers, Sequences, FiniteSets, TLC

(***************************************************************************)
(* Bounds of the model.                                                    *)
(***************************************************************************)
\* Largest entity id: the id counter is an unsigned integer that wraps
\* from MaxEntity to 0.
MaxEntity == 3
\* Number of QueueForDestruction calls (of a non-null entity) in a run.
MaxPushes == 2
\* Number of DestroyQueuedEntities calls in a run.
MaxDrains == 2

(***************************************************************************)
(* Values.                                                                 *)
(***************************************************************************)
kNullEntity == 0
DefaultTypeId == 0
NullSystem == "nullptr"
NullData == "nullptr"
Free == "free"
EmptyMap == <<>>
NullPtr == <<>>
Ptr(x) == <<x>>
Deref(p) == p[1]
\* What an operation returned: <<>> for void, <<v>> for the value v.
NoRet == <<>>

Entities == 0..MaxEntity
\* The System instances, and the TypeId of each one's class: a System is
\* registered under the TypeId of its class.
Systems == {"A", "A2", "B"}
SystemTypes == {1, 2}
TypeOf(system) == IF system = "B" THEN 2 ELSE 1
TypeIds == {DefaultTypeId} \cup SystemTypes
DefTypes == {1, 2, 3}

Json == <<".", "j", "s", "o", "n">>
Bin == <<".", "b", "i", "n">>

\* Blueprint names the callers use.
NameA == <<"a">>
NameJ == <<"a">> \o Json
NameM == <<"m">>
NameN == <<"n">>
\* Names around the ".json" test: the extension alone, the letters without
\* the dot, a cut extension, and the extension in the middle of the name.
NameExt == Json
NameDotless == <<"j", "s", "o", "n">>
NameCut == <<"a", ".", "j", "s", "o">>
NameInfix == NameJ \o <<"a">>
Names == {NameA, NameJ, NameM, NameN, NameExt, NameDotless, NameCut, NameInfix}
EmptyName == <<>>

Leaf(defs) == [defs |-> defs, children |-> <<>>]
Node(defs, children) == [defs |-> defs, children |-> children]

\* In-memory BlueprintTrees the callers build.
Trees ==
  { Leaf(<<>>),
    Leaf(<<1, 3, 2>>),
    Node(<<1>>, <<Leaf(<<2>>)>>),
    Node(<<1, 2>>, <<Leaf(<<1>>), Leaf(<<3, 2>>)>>),
    Node(<<2>>, <<Node(<<1>>, <<Leaf(<<2>>)>>)>>) }

\* In-memory Blueprints (one entity's component list) the callers build.
Blueprints == {<<>>, <<1>>, <<3>>, <<1, 3, 2>>}

EmptyTree == Leaf(<<>>)

(***************************************************************************)
(* External collaborators.                                                 *)
(***************************************************************************)
\* AssetLoader::LoadNow<SimpleAsset>(filename): what is on disk.  A missing
\* file loads to an asset of size 0.
LoadNow(filename) ==
  CASE filename = NameA \o Bin -> [size |-> 1, data |-> "bytesA"]
    [] filename = NameJ -> [size |-> 1, data |-> "bytesJ"]
    [] filename = NameN \o Bin -> [size |-> 1, data |-> NullData]
    [] OTHER -> [size |-> 0, data |-> NullData]

\* The configured blueprint decoder, loader_(data).
Decode(data) ==
  CASE data = "bytesA" -> Node(<<1, 3>>, <<Leaf(<<2>>)>>)
    [] data = "bytesJ" -> Leaf(<<2>>)
    [] OTHER -> EmptyTree

\* Hash(filename.c_str()): the cache key of a filename.
Hash(filename) == <<"hash", Len(filename), filename>>

Filenames == Names \cup {name \o Bin : name \in Names}
Keys == {Hash(f) : f \in Filenames}

VARIABLES
  entity_generator_,         \* the id counter
  systems_,                  \* TypeId -> System*
  type_map_,                 \* def type -> TypeId
  entity_to_blueprint_map_,  \* Entity -> blueprint name
  blueprints_,               \* the asset cache: key -> asset
  pending_destroy_,          \* the queue of entities to destroy
  mutex_,                    \* Free, or the context that holds the lock
  loader_,                   \* whether a blueprint decoder is configured
  pc,                        \* each context's position
  local,                     \* each context's local variables
  calls,                     \* System callbacks made by the last operation
  links,                     \* <<parent, child, child blueprint>> per create_child_fn_ call of the last operation
  diag,                      \* diagnostics logged by the last operation
  unrecorded,                \* entities that got CreateComponent in the last operation while they had no provenance entry
  ret,                       \* what the last operation returned
  loads,                     \* filename -> number of LoadNow calls so far
  abort,                     \* "" while the process runs, else why it ended
  op,                        \* the last step taken and its arguments
  issued,                    \* the ids Create() returned, in order of return
  pushed,                    \* per queued entry (its ticket is its index): entity, swaps done and the owner's position when pushed
  pending_tickets,           \* the tickets of the entries of pending_destroy_
  swaps,                     \* queue swaps done by DestroyQueuedEntities so far
  processed,                 \* <<ticket, drain>> per Destroy call made by a drain
  first_added,               \* system type -> the first non-null System passed to AddSystem under it
  last_registered,           \* def type -> the system type last passed to RegisterDef for it
  added_order,               \* the Systems AddSystem registered, in the order of registration
  alive                      \* entity -> its blueprint name, for the entities constructed and not destroyed

vars == <<entity_generator_, systems_, type_map_, entity_to_blueprint_map_,
          blueprints_, pending_destroy_, mutex_, loader_, pc, local, calls,
          links, diag, unrecorded, ret, loads, abort, op, issued, pushed, pending_tickets,
          swaps, processed, first_added, last_registered, added_order, alive>>

Owner == "main"
Workers == {"w1", "w2"}
Contexts == {Owner} \cup Workers

(***************************************************************************)
(* Strings.                                                                *)
(***************************************************************************)
\* EndsWith(str, suffix)
EndsWith(str, suffix) ==
  /\ Len(str) >= Len(suffix)
  /\ SubSeq(str, Len(str) - Len(suffix) + 1, Len(str)) = suffix

(***************************************************************************)
(* The factory's state as one record, threaded through the nested calls    *)
(* of an operation.                                                        *)
(***************************************************************************)
Snapshot ==
  [gen |-> entity_generator_, sys |-> systems_, tmap |-> type_map_,
   emap |-> entity_to_blueprint_map_, cache |-> blueprints_,
   loads |-> loads, calls |-> <<>>, links |-> <<>>, diag |-> {}, unrec |-> {},
   abort |-> abort, issued |-> issued, res |-> 0]

Running(s) == s.abort = ""

Has(map, key) == key \in DOMAIN map

\* map[key] = value, and map.emplace(key, value) for an absent key.
Insert(map, key, value) ==
  [k \in DOMAIN map \cup {key} |-> IF k = key THEN value ELSE map[k]]

\* map.erase(key)
Erase(map, key) == [k \in DOMAIN map \ {key} |-> map[k]]

\* map[key] read through operator[]: an absent key is inserted with the
\* value-initialised value.
Touch(map, key, default) ==
  IF Has(map, key) THEN map ELSE Insert(map, key, default)

Log(s, what) == [s EXCEPT !.diag = @ \cup {what}]

\* Entity EntityFactory::Create(): the increment under the lock, and the
\* CHECK_NE that ends the process when the counter wraps to kNullEntity.
Create(s) ==
  IF ~Running(s) THEN s
  ELSE LET entity == (s.gen + 1) % (MaxEntity + 1)
       IN IF entity = kNullEntity
            THEN [s EXCEPT !.gen = entity, !.abort = "CHECK_NE"]
            ELSE [s EXCEPT !.gen = entity, !.issued = Append(@, entity),
                           !.res = entity]

\* System* EntityFactory::GetSystem(def_type): both lookups use operator[].
GetSystem(s, def_type) ==
  LET tm == Touch(s.tmap, def_type, DefaultTypeId)
      type_id == tm[def_type]
      sy == Touch(s.sys, type_id, NullSystem)
  IN [s EXCEPT !.tmap = tm, !.sys = sy, !.res = sy[type_id]]


(***************************************************************************)
(* Two-phase recursive construction.                                       *)
(***************************************************************************)
\* The create pass of CreateImpl: ForEachComponent with the lambda that
\* calls CreateComponent, or logs when the System is unknown.
RECURSIVE CreatePass(_, _, _)

\* CreatePass with a fault: the first unknown System ends the pass.
CreatePass_StopAtUnknown(s, entity, defs) ==
  IF ~Running(s) \/ defs = <<>> THEN s
  ELSE LET g == GetSystem(s, Head(defs))
           system == g.res
       IN IF system # NullSystem
            THEN CreatePass([g EXCEPT !.calls = Append(@,
                    <<"CreateComponent", system, entity, Head(defs)>>)],
                    entity, Tail(defs))
            ELSE Log([g EXCEPT !.emap = Touch(g.emap, entity, EmptyName)],
                     "Unknown system")

CreatePass(s, entity, defs) ==
  IF ~Running(s) \/ defs = <<>> THEN s
  ELSE LET g == GetSystem(s, Head(defs))
           system == g.res
           t == IF system # NullSystem
                  THEN [g EXCEPT !.calls = Append(@,
                          <<"CreateComponent", system, entity, Head(defs)>>),
                                 !.unrec = IF Has(g.emap, entity) THEN @
                                           ELSE @ \cup {entity}]
                  ELSE Log([g EXCEPT !.emap = Touch(g.emap, entity, EmptyName)],
                           "Unknown system")
       IN CreatePass(t, entity, Tail(defs))

\* The post-create pass of CreateImpl.
RECURSIVE PostPass(_, _, _)
PostPass(s, entity, defs) ==
  IF ~Running(s) \/ defs = <<>> THEN s
  ELSE LET g == GetSystem(s, Head(defs))
           system == g.res
           t == IF system # NullSystem
                  THEN [g EXCEPT !.calls = Append(@,
                          <<"PostCreateComponent", system, entity, Head(defs)>>)]
                  ELSE g
       IN PostPass(t, entity, Tail(defs))

RECURSIVE CreateImpl(_, _, _, _)

\* bool CreateImpl(Entity, BlueprintTree*)
CreateImpl_BlueprintTree(s, entity, blueprint) ==
  CreateImpl(s, entity, Ptr(blueprint.defs), Ptr(blueprint.children))

\* Entity Create(Entity, BlueprintTree*)
Create_Entity_BlueprintTree(s, entity, blueprint) ==
  LET a == CreateImpl_BlueprintTree(s, entity, blueprint)
  IN IF ~Running(a) THEN a
     ELSE [a EXCEPT !.emap = Insert(a.emap, entity, EmptyName), !.res = entity]

\* Entity Create(BlueprintTree*)
Create_BlueprintTree(s, blueprint) ==
  LET a == Create(s)
  IN IF ~Running(a) THEN a
     ELSE Create_Entity_BlueprintTree(a, a.res, blueprint)

\* create_child_fn_(entity, &child_blueprint) in its default wiring: the
\* full create protocol for a freshly allocated child entity id.
CreateChild(s, parent, child_blueprint) ==
  LET a == Create_BlueprintTree(s, child_blueprint)
  IN IF ~Running(a) THEN a
     ELSE [a EXCEPT !.links = Append(@, <<parent, a.res, child_blueprint>>)]

\* The loop of CreateImpl over *children.
RECURSIVE ChildLoop(_, _, _)
ChildLoop(s, entity, children) ==
  IF ~Running(s) \/ children = <<>> THEN s
  ELSE ChildLoop(CreateChild(s, entity, Head(children)), entity, Tail(children))

\* CreateImpl with a fault: the children are constructed after the
\* parent's post-create pass.
CreateImpl_ChildrenLast(s, entity, blueprint, children) ==
  IF ~Running(s) THEN s
  ELSE IF entity = kNullEntity
    THEN [Log(s, "Cannot create null entity") EXCEPT !.res = FALSE]
  ELSE IF blueprint = NullPtr
    THEN [Log(s, "Cannot create entity from null blueprint") EXCEPT !.res = FALSE]
  ELSE LET a == CreatePass(s, entity, Deref(blueprint))
           b == PostPass(a, entity, Deref(blueprint))
           c == IF children # NullPtr
                  THEN ChildLoop(b, entity, Deref(children))
                  ELSE b
       IN IF ~Running(c) THEN c ELSE [c EXCEPT !.res = TRUE]

\* CreateImpl with a fault: the node's post-create pass runs between its
\* create pass and its children.
CreateImpl_PostBeforeChildren(s, entity, blueprint, children) ==
  IF ~Running(s) THEN s
  ELSE IF entity = kNullEntity
    THEN [Log(s, "Cannot create null entity") EXCEPT !.res = FALSE]
  ELSE IF blueprint = NullPtr
    THEN [Log(s, "Cannot create entity from null blueprint") EXCEPT !.res = FALSE]
  ELSE LET a == PostPass(CreatePass(s, entity, Deref(blueprint)), entity, Deref(blueprint))
           b == IF children # NullPtr
                  THEN ChildLoop(a, entity, Deref(children))
                  ELSE a
       IN IF ~Running(b) THEN b ELSE [b EXCEPT !.res = TRUE]

\* bool CreateImpl(Entity, Blueprint*, std::list<BlueprintTree>* children)
CreateImpl(s, entity, blueprint, children) ==
  IF ~Running(s) THEN s
  ELSE IF entity = kNullEntity
    THEN [Log(s, "Cannot create null entity") EXCEPT !.res = FALSE]
  ELSE IF blueprint = NullPtr
    THEN [Log(s, "Cannot create entity from null blueprint") EXCEPT !.res = FALSE]
  ELSE LET a == CreatePass(s, entity, Deref(blueprint))
           b == IF children # NullPtr
                  THEN ChildLoop(a, entity, Deref(children))
                  ELSE a
           c == PostPass(b, entity, Deref(blueprint))
       IN IF ~Running(c) THEN c ELSE [c EXCEPT !.res = TRUE]

\* Entity Create(Blueprint*)
Create_Blueprint(s, blueprint) ==
  LET a == Create(s)
      entity == a.res
      b == CreateImpl(a, entity, Ptr(blueprint), NullPtr)
  IN IF ~Running(b) THEN b
     ELSE [b EXCEPT !.emap = Insert(b.emap, entity, EmptyName), !.res = entity]

(***************************************************************************)
(* Blueprint resolution and caching.                                       *)
(***************************************************************************)
\* blueprints_.Create(key, create): the cached asset of the key, or the
\* one the create function loads, which is then cached.
ResourceCreate(s, key, filename) ==
  IF Has(s.cache, key) THEN [s EXCEPT !.res = s.cache[key]]
  ELSE LET asset == LoadNow(filename)
       IN [s EXCEPT !.cache = Insert(s.cache, key, asset),
                    !.loads = Insert(s.loads, filename, s.loads[filename] + 1),
                    !.res = asset]

\* The resolution with a fault: ".bin" is appended to every name.
ResolveFilename_AlwaysBin(name) == name \o Bin

\* The filename GetBlueprintAsset resolves a name to.
ResolveFilename(name) == IF ~EndsWith(name, Json) THEN name \o Bin ELSE name

\* GetBlueprintAsset with a fault: every request loads the asset anew.
GetBlueprintAsset_NoCache(s, name) ==
  LET filename == ResolveFilename(name)
      asset == LoadNow(filename)
      a == [s EXCEPT !.cache = Insert(s.cache, Hash(filename), asset),
                     !.loads = Insert(s.loads, filename, s.loads[filename] + 1)]
  IN IF asset.size = 0
       THEN [Log(a, "Could not load entity blueprint") EXCEPT !.res = NullPtr]
       ELSE [a EXCEPT !.res = Ptr(asset)]

\* std::shared_ptr<SimpleAsset> GetBlueprintAsset(name)
GetBlueprintAsset(s, name) ==
  LET filename == ResolveFilename(name)
      key == Hash(filename)
      a == ResourceCreate(s, key, filename)
      asset == a.res
  IN IF asset.size = 0
       THEN [Log(a, "Could not load entity blueprint") EXCEPT !.res = NullPtr]
       ELSE [a EXCEPT !.res = Ptr(asset)]

\* CreateImpl with a fault: without a decoder the creation fails.
CreateImpl_data_NeedsDecoder(s, entity, name, data) ==
  IF ~Running(s) THEN s
  ELSE IF entity = kNullEntity
    THEN [Log(s, "Cannot create null entity") EXCEPT !.res = FALSE]
  ELSE IF data = NullData
    THEN [Log(s, "Cannot create entity from null data") EXCEPT !.res = FALSE]
  ELSE IF ~loader_
    THEN [Log(s, "Unable to convert raw data to blueprint") EXCEPT !.res = FALSE]
  ELSE CreateImpl_BlueprintTree([s EXCEPT !.emap = Insert(s.emap, entity, name)],
                                entity, Decode(data))

\* bool CreateImpl(Entity, const std::string& name, const void* data)
CreateImpl_data(s, entity, name, data) ==
  IF ~Running(s) THEN s
  ELSE IF entity = kNullEntity
    THEN [Log(s, "Cannot create null entity") EXCEPT !.res = FALSE]
  ELSE IF data = NullData
    THEN [Log(s, "Cannot create entity from null data") EXCEPT !.res = FALSE]
  ELSE LET blueprint == IF loader_ THEN Decode(data) ELSE EmptyTree
           a == IF loader_ THEN s ELSE Log(s, "Unable to convert raw data to blueprint")
           b == [a EXCEPT !.emap = Insert(a.emap, entity, name)]
       IN CreateImpl_BlueprintTree(b, entity, blueprint)

\* Entity CreateFromBlueprint(const void* data, const std::string& name)
CreateFromBlueprint(s, data, name) ==
  LET a == Create(s)
      entity == a.res
      b == CreateImpl_data(a, entity, name, data)
  IN IF ~Running(b) THEN b
     ELSE [b EXCEPT !.res = IF b.res THEN entity ELSE kNullEntity]

\* Create(name) with a fault: the entity id is allocated before the asset
\* is looked up.
Create_name_AllocFirst(s, name) ==
  LET e == Create(s)
      a == GetBlueprintAsset(e, name)
      asset == a.res
  IN IF ~Running(a) THEN a
     ELSE IF asset = NullPtr
       THEN [Log(a, "No such blueprint") EXCEPT !.res = kNullEntity]
       ELSE LET b == CreateImpl_data(a, e.res, name, Deref(asset).data)
            IN [b EXCEPT !.res = IF b.res THEN e.res ELSE kNullEntity]

\* Entity Create(const std::string& name)
Create_name(s, name) ==
  LET a == GetBlueprintAsset(s, name)
      asset == a.res
  IN IF asset = NullPtr
       THEN [Log(a, "No such blueprint") EXCEPT !.res = kNullEntity]
       ELSE CreateFromBlueprint(a, Deref(asset).data, name)

\* Entity Create(Entity entity, const std::string& name)
Create_Entity_name(s, entity, name) ==
  LET a == GetBlueprintAsset(s, name)
      asset == a.res
  IN IF asset # NullPtr
       THEN LET b == CreateImpl_data(a, entity, name, Deref(asset).data)
            IN IF ~Running(b) THEN b ELSE [b EXCEPT !.res = entity]
       ELSE [Log(a, "No such blueprint") EXCEPT !.res = kNullEntity]


(***************************************************************************)
(* Registry.                                                               *)
(***************************************************************************)
\* void RegisterDef(TypeId system_type, HashValue def_type)
RegisterDef(s, system_type, def_type) ==
  [s EXCEPT !.tmap = Insert(s.tmap, def_type, system_type)]

\* void AddSystem(TypeId system_type, System* system)
AddSystem(s, system_type, system) ==
  IF system = NullSystem THEN s
  ELSE IF ~Has(s.sys, system_type)
    THEN [s EXCEPT !.sys = Insert(s.sys, system_type, system)]
    ELSE s

(***************************************************************************)
(* Destruction.                                                            *)
(***************************************************************************)
\* The orders in which a range-for may visit the entries of a map.
Orders(map) ==
  LET n == Cardinality(DOMAIN map)
  IN {o \in [1..n -> DOMAIN map] : \A i, j \in 1..n : o[i] = o[j] => i = j}

\* What a call through a null System* may do.
NullCallOutcomes == {"crash", "no effect"}

\* The loop of Destroy over systems_, visiting the entries in `order`.
RECURSIVE DestroyLoop(_, _, _, _)
DestroyLoop(s, entity, order, ub) ==
  IF ~Running(s) \/ order = <<>> THEN s
  ELSE LET system == s.sys[Head(order)]
           t == IF system # NullSystem
                  THEN [s EXCEPT !.calls = Append(@, <<"Destroy", system, entity, 0>>)]
                  ELSE IF ub = "crash" THEN [s EXCEPT !.abort = "nullptr"] ELSE s
       IN DestroyLoop(t, entity, Tail(order), ub)

\* Destroy with a fault: the null entity is not tested for.
Destroy_NoNullCheck(s, entity, order, ub) ==
  IF ~Running(s) THEN s
  ELSE DestroyLoop([s EXCEPT !.emap = Erase(s.emap, entity)], entity, order, ub)

\* void Destroy(Entity entity)
Destroy(s, entity, order, ub) ==
  IF ~Running(s) \/ entity = kNullEntity THEN s
  ELSE DestroyLoop([s EXCEPT !.emap = Erase(s.emap, entity)], entity, order, ub)

(***************************************************************************)
(* Initialization.                                                         *)
(***************************************************************************)
\* void InitializeSystems(): the loop over systems_, visiting the entries
\* in `order`.
RECURSIVE InitializeSystems(_, _, _)
InitializeSystems(s, order, ub) ==
  IF ~Running(s) \/ order = <<>> THEN s
  ELSE LET system == s.sys[Head(order)]
           t == IF system # NullSystem
                  THEN [s EXCEPT !.calls = Append(@, <<"Initialize", system, 0, 0>>)]
                  ELSE IF ub = "crash" THEN [s EXCEPT !.abort = "nullptr"] ELSE s
       IN InitializeSystems(t, Tail(order), ub)

\* registry_->CheckAllDependencies()
CheckAllDependencies(s) ==
  IF ~Running(s) THEN s
  ELSE [s EXCEPT !.calls = Append(@, <<"CheckAllDependencies", "registry", 0, 0>>)]

\* void Initialize()
Initialize(s, order, ub) ==
  LET a == IF DOMAIN s.sys = {}
             THEN Log(s, "Call Initialize after creating Systems.")
             ELSE s
  IN CheckAllDependencies(InitializeSystems(a, order, ub))

(***************************************************************************)
(* Operations of the owning context that run as one step.                  *)
(***************************************************************************)
OpRecord(name, ctx, entity, tree, bname) ==
  [name |-> name, ctx |-> ctx, entity |-> entity, tree |-> tree, bname |-> bname]

\* The factory's state after an operation that ended in state record s.
Commit(s, o) ==
  /\ entity_generator_' = s.gen
  /\ systems_' = s.sys
  /\ type_map_' = s.tmap
  /\ entity_to_blueprint_map_' = s.emap
  /\ blueprints_' = s.cache
  /\ loads' = s.loads
  /\ calls' = s.calls
  /\ links' = s.links
  /\ diag' = s.diag
  /\ unrecorded' = s.unrec
  /\ abort' = s.abort
  /\ issued' = s.issued
  /\ op' = o

Idle(t) == abort = "" /\ pc[t] = "idle"

QueueVars == <<pending_destroy_, pushed, pending_tickets, swaps, processed>>
CallerVars == <<first_added, last_registered, added_order>>

\* An entity id the caller holds: the null entity, or an id Create() gave out.
HeldEntities == {kNullEntity} \cup {issued[i] : i \in 1..Len(issued)}

CallRegisterDef(system_type, def_type) ==
  /\ Idle(Owner)
  /\ \E s \in {RegisterDef(Snapshot, system_type, def_type)} :
       Commit(s, OpRecord("RegisterDef", Owner, 0, EmptyTree, EmptyName))
  /\ ret' = NoRet
  /\ last_registered' = Insert(last_registered, def_type, system_type)
  /\ UNCHANGED <<QueueVars, mutex_, loader_, first_added, added_order, alive, pc, local>>

CallAddSystem(system_type, system) ==
  /\ Idle(Owner)
  /\ \E s \in {AddSystem(Snapshot, system_type, system)} :
       Commit(s, OpRecord("AddSystem", Owner, 0, EmptyTree, EmptyName))
  /\ ret' = NoRet
  /\ first_added' = IF system # NullSystem /\ ~Has(first_added, system_type)
                      THEN Insert(first_added, system_type, system)
                      ELSE first_added
  /\ added_order' = IF system # NullSystem /\ ~Has(systems_, system_type)
                      THEN Append(added_order, system)
                      ELSE added_order
  /\ UNCHANGED <<QueueVars, mutex_, loader_, last_registered, alive, pc, local>>

\* The result of a Create overload: the entity, unless the process ended.
Returned(s) == IF Running(s) THEN <<s.res>> ELSE NoRet

\* The entities the callers hold as constructed after a Create overload
\* that ended in s: when it returned a non-null entity, that entity under
\* the blueprint name given, and the children made for it under no name.
AliveAfter(s, name) ==
  IF Running(s) /\ s.res # kNullEntity
    THEN [e \in DOMAIN alive \cup {s.res} \cup {s.links[i][2] : i \in 1..Len(s.links)} |->
            IF e = s.res THEN name
            ELSE IF \E i \in 1..Len(s.links) : s.links[i][2] = e THEN EmptyName
            ELSE alive[e]]
    ELSE alive

CallCreate_name(name) ==
  /\ Idle(Owner) /\ mutex_ = Free
  /\ \E s \in {Create_name(Snapshot, name)} :
       /\ Commit(s, OpRecord("Create(name)", Owner, 0, EmptyTree, name))
       /\ ret' = Returned(s)
       /\ alive' = AliveAfter(s, name)
  /\ UNCHANGED <<QueueVars, mutex_, loader_, CallerVars, pc, local>>

CallCreate_Entity_name(entity, name) ==
  /\ Idle(Owner) /\ mutex_ = Free
  /\ \E s \in {Create_Entity_name(Snapshot, entity, name)} :
       /\ Commit(s, OpRecord("Create(entity,name)", Owner, entity, EmptyTree, name))
       /\ ret' = Returned(s)
       /\ alive' = AliveAfter(s, name)
  /\ UNCHANGED <<QueueVars, mutex_, loader_, CallerVars, pc, local>>

CallCreate_Blueprint(blueprint) ==
  /\ Idle(Owner) /\ mutex_ = Free
  /\ \E s \in {Create_Blueprint(Snapshot, blueprint)} :
       /\ Commit(s, OpRecord("Create(Blueprint*)", Owner, 0, Leaf(blueprint), EmptyName))
       /\ ret' = Returned(s)
       /\ alive' = AliveAfter(s, EmptyName)
  /\ UNCHANGED <<QueueVars, mutex_, loader_, CallerVars, pc, local>>

CallCreate_BlueprintTree(blueprint) ==
  /\ Idle(Owner) /\ mutex_ = Free
  /\ \E s \in {Create_BlueprintTree(Snapshot, blueprint)} :
       /\ Commit(s, OpRecord("Create(BlueprintTree*)", Owner, 0, blueprint, EmptyName))
       /\ ret' = Returned(s)
       /\ alive' = AliveAfter(s, EmptyName)
  /\ UNCHANGED <<QueueVars, mutex_, loader_, CallerVars, pc, local>>

CallCreate_Entity_BlueprintTree(entity, blueprint) ==
  /\ Idle(Owner) /\ mutex_ = Free
  /\ \E s \in {Create_Entity_BlueprintTree(Snapshot, entity, blueprint)} :
       /\ Commit(s, OpRecord("Create(entity,BlueprintTree*)", Owner, entity, blueprint, EmptyName))
       /\ ret' = Returned(s)
       /\ alive' = AliveAfter(s, EmptyName)
  /\ UNCHANGED <<QueueVars, mutex_, loader_, CallerVars, pc, local>>

CallInitialize ==
  /\ Idle(Owner)
  /\ \E order \in Orders(systems_), ub \in NullCallOutcomes :
       \E s \in {Initialize(Snapshot, order, ub)} :
         Commit(s, OpRecord("Initialize", Owner, 0, EmptyTree, EmptyName))
  /\ ret' = NoRet
  /\ UNCHANGED <<QueueVars, mutex_, loader_, CallerVars, alive, pc, local>>

CallDestroy(entity) ==
  /\ Idle(Owner)
  /\ \E order \in Orders(systems_), ub \in NullCallOutcomes :
       \E s \in {Destroy(Snapshot, entity, order, ub)} :
         Commit(s, OpRecord("Destroy", Owner, entity, EmptyTree, EmptyName))
  /\ ret' = NoRet
  /\ alive' = Erase(alive, entity)
  /\ UNCHANGED <<QueueVars, mutex_, loader_, CallerVars, pc, local>>


(***************************************************************************)
(* Operations that take the lock, one step per statement.                  *)
(***************************************************************************)
FactoryVars == <<entity_generator_, systems_, type_map_,
                 entity_to_blueprint_map_, blueprints_, loads>>
ObsVars == <<calls, links, diag, unrecorded>>

\* Lock with a fault: it does not wait for the mutex.
Acquire_NoExclusion(t) == mutex_' = t

\* Lock lock(mutex_): blocks until the mutex is free, then holds it.
Acquire(t) == mutex_ = Free /\ mutex_' = t

\* The end of the scope of a Lock.
Release(t) == mutex_' = Free

Goto(t, label) == pc' = [pc EXCEPT ![t] = label]

StepOp(name, t, entity) == op' = OpRecord(name, t, entity, EmptyTree, EmptyName)

\* Entity Create(), entered by context t.
CreateLock(t) ==
  /\ Idle(t)
  /\ Acquire(t)
  /\ Goto(t, "Create:read")
  /\ UNCHANGED <<FactoryVars, ObsVars, QueueVars, loader_, CallerVars, alive, local, ret, abort,
                 issued, op>>

\* ++entity_generator_ reads the counter ...
CreateRead(t) ==
  /\ abort = "" /\ pc[t] = "Create:read"
  /\ local' = [local EXCEPT ![t].tmp = entity_generator_]
  /\ Goto(t, "Create:write")
  /\ UNCHANGED <<FactoryVars, ObsVars, QueueVars, loader_, CallerVars, alive, mutex_, ret, abort,
                 issued, op>>

\* The write with a fault: no CHECK_NE follows it.
CreateWrite_NoCheck(t) ==
  /\ abort = "" /\ pc[t] = "Create:write"
  /\ LET entity == (local[t].tmp + 1) % (MaxEntity + 1)
     IN /\ entity_generator_' = entity
        /\ local' = [local EXCEPT ![t].entity = entity]
  /\ Goto(t, "Create:return")
  /\ UNCHANGED <<systems_, type_map_, entity_to_blueprint_map_, blueprints_,
                 loads, ObsVars, QueueVars, loader_, CallerVars, alive, mutex_, ret, issued, op,
                 abort>>

\* ... and writes it back incremented; then CHECK_NE(entity, kNullEntity).
CreateWrite(t) ==
  /\ abort = "" /\ pc[t] = "Create:write"
  /\ LET entity == (local[t].tmp + 1) % (MaxEntity + 1)
     IN /\ entity_generator_' = entity
        /\ local' = [local EXCEPT ![t].entity = entity]
        /\ abort' = IF entity = kNullEntity THEN "CHECK_NE" ELSE abort
  /\ Goto(t, "Create:return")
  /\ UNCHANGED <<systems_, type_map_, entity_to_blueprint_map_, blueprints_,
                 loads, ObsVars, QueueVars, loader_, CallerVars, alive, mutex_, ret, issued, op>>

CreateReturn(t) ==
  /\ abort = "" /\ pc[t] = "Create:return"
  /\ Release(t)
  /\ issued' = Append(issued, local[t].entity)
  /\ ret' = <<local[t].entity>>
  /\ Goto(t, "idle")
  /\ StepOp("Create()", t, local[t].entity)
  /\ local' = [local EXCEPT ![t].tmp = 0, ![t].entity = 0]
  /\ UNCHANGED <<FactoryVars, ObsVars, QueueVars, loader_, CallerVars, alive, abort>>

\* void QueueForDestruction(Entity): the null entity returns at once.
QueueNull(t) ==
  /\ Idle(t)
  /\ StepOp("QueueForDestruction", t, kNullEntity)
  /\ ret' = NoRet
  /\ UNCHANGED <<FactoryVars, ObsVars, QueueVars, loader_, CallerVars, alive, mutex_, pc, local,
                 abort, issued>>

QueueLock(t, entity) ==
  /\ Idle(t)
  /\ entity # kNullEntity
  /\ Len(pushed) < MaxPushes
  /\ Acquire(t)
  /\ local' = [local EXCEPT ![t].entity = entity]
  /\ Goto(t, "Queue:push")
  /\ UNCHANGED <<FactoryVars, ObsVars, QueueVars, loader_, CallerVars, alive, ret, abort, issued, op>>

\* pending_destroy_.push(entity), and the end of the function.
QueuePush(t) ==
  /\ abort = "" /\ pc[t] = "Queue:push"
  /\ pending_destroy_' = Append(pending_destroy_, local[t].entity)
  /\ pushed' = Append(pushed, [entity |-> local[t].entity, swaps |-> swaps,
                                owner_pc |-> pc[Owner]])
  /\ pending_tickets' = Append(pending_tickets, Len(pushed) + 1)
  /\ Release(t)
  /\ Goto(t, "idle")
  /\ ret' = NoRet
  /\ StepOp("QueueForDestruction", t, local[t].entity)
  /\ local' = [local EXCEPT ![t].entity = 0]
  /\ UNCHANGED <<FactoryVars, ObsVars, swaps, processed, loader_, CallerVars, alive, abort, issued>>

\* The swap with a fault: the member queue is copied, not emptied.
Swap_CopyOnly(member, localq) == [member |-> member, localq |-> member]

\* std::swap(pending_destroy_, pending_destroy) with the empty local queue:
\* what the member and the local hold afterwards.
Swap(member, localq) == [member |-> localq, localq |-> member]

\* void DestroyQueuedEntities(), on the owning context.
DrainLock ==
  /\ Idle(Owner)
  /\ swaps < MaxDrains
  /\ Acquire(Owner)
  /\ Goto(Owner, "Drain:swap")
  /\ UNCHANGED <<FactoryVars, ObsVars, QueueVars, loader_, CallerVars, alive, local, ret, abort,
                 issued, op>>

\* The closing brace of the block that holds the lock, with a fault: the
\* lock stays held.
SwapScopeExit_HoldLock(t) == mutex_' = mutex_

\* The closing brace of the block in DestroyQueuedEntities that holds the
\* lock: the Lock is destroyed before the loop.
SwapScopeExit(t) == Release(t)

DrainSwap ==
  /\ abort = "" /\ pc[Owner] = "Drain:swap"
  /\ LET q == Swap(pending_destroy_, <<>>)
         k == Swap(pending_tickets, <<>>)
     IN /\ pending_destroy_' = q.member
        /\ pending_tickets' = k.member
        /\ local' = [local EXCEPT ![Owner].pending_destroy = q.localq,
                                  ![Owner].tickets = k.localq,
                                  ![Owner].batch = q.localq,
                                  ![Owner].destroyed = <<>>]
  /\ swaps' = swaps + 1
  /\ SwapScopeExit(Owner)
  /\ Goto(Owner, "Drain:loop")
  /\ UNCHANGED <<FactoryVars, ObsVars, pushed, processed, loader_, CallerVars, alive, ret, abort,
                 issued, op>>

\* One iteration of the loop: Destroy(pending_destroy.front()); pop().
DrainStep ==
  /\ abort = "" /\ pc[Owner] = "Drain:loop"
  /\ local[Owner].pending_destroy # <<>>
  /\ LET entity == Head(local[Owner].pending_destroy)
     IN \E order \in Orders(systems_), ub \in NullCallOutcomes :
          \E s \in {Destroy(Snapshot, entity, order, ub)} :
             /\ Commit(s, OpRecord("DestroyQueuedEntities:Destroy", Owner, entity,
                                   EmptyTree, EmptyName))
             /\ processed' = Append(processed, <<Head(local[Owner].tickets), swaps>>)
             /\ local' = IF Running(s)
                           THEN [local EXCEPT
                                   ![Owner].pending_destroy = Tail(@),
                                   ![Owner].tickets = Tail(@),
                                   ![Owner].destroyed = Append(@, entity)]
                           ELSE [local EXCEPT ![Owner].destroyed = Append(@, entity)]
  /\ ret' = NoRet
  /\ alive' = Erase(alive, Head(local[Owner].pending_destroy))
  /\ UNCHANGED <<pending_destroy_, pushed, pending_tickets, swaps, mutex_, loader_, CallerVars, pc>>

\* A System's Destroy callback, run by the drain's Destroy of the front
\* entry, calls QueueForDestruction(entity): it takes the lock ...
CallbackQueueLock(entity) ==
  /\ abort = "" /\ pc[Owner] = "Drain:loop"
  /\ local[Owner].pending_destroy # <<>>
  /\ \E type_id \in DOMAIN systems_ : systems_[type_id] # NullSystem
  /\ entity # kNullEntity
  /\ Len(pushed) < MaxPushes
  /\ Acquire(Owner)
  /\ local' = [local EXCEPT ![Owner].entity = entity]
  /\ Goto(Owner, "Drain:callback")
  /\ UNCHANGED <<FactoryVars, ObsVars, QueueVars, loader_, CallerVars, alive, ret, abort, issued, op>>

\* ... and pushes the entity, then returns into the callback.
CallbackQueuePush ==
  /\ abort = "" /\ pc[Owner] = "Drain:callback"
  /\ pending_destroy_' = Append(pending_destroy_, local[Owner].entity)
  /\ pushed' = Append(pushed, [entity |-> local[Owner].entity, swaps |-> swaps,
                                owner_pc |-> pc[Owner]])
  /\ pending_tickets' = Append(pending_tickets, Len(pushed) + 1)
  /\ Release(Owner)
  /\ Goto(Owner, "Drain:loop")
  /\ local' = [local EXCEPT ![Owner].entity = 0]
  /\ UNCHANGED <<FactoryVars, ObsVars, swaps, processed, loader_, CallerVars, alive, abort,
                 issued, ret, op>>

DrainReturn ==
  /\ abort = "" /\ pc[Owner] = "Drain:loop"
  /\ local[Owner].pending_destroy = <<>>
  /\ Goto(Owner, "idle")
  /\ ret' = NoRet
  /\ StepOp("DestroyQueuedEntities", Owner, 0)
  /\ UNCHANGED <<FactoryVars, ObsVars, QueueVars, loader_, CallerVars, alive, mutex_, local, abort, issued>>

(***************************************************************************)
(* Specifications.                                                         *)
(***************************************************************************)
\* EntityFactory::EntityFactory(Registry*): the state after construction.
Init ==
  /\ entity_generator_ = 0
  /\ systems_ = EmptyMap
  /\ type_map_ = EmptyMap
  /\ entity_to_blueprint_map_ = EmptyMap
  /\ blueprints_ = EmptyMap
  /\ pending_destroy_ = <<>>
  /\ mutex_ = Free
  /\ loader_ \in BOOLEAN
  /\ pc = [t \in Contexts |-> "idle"]
  /\ local = [t \in Contexts |->
               [entity |-> 0, tmp |-> 0, pending_destroy |-> <<>>,
                tickets |-> <<>>, batch |-> <<>>, destroyed |-> <<>>]]
  /\ calls = <<>>
  /\ links = <<>>
  /\ diag = {}
  /\ unrecorded = {}
  /\ ret = NoRet
  /\ loads = [f \in Filenames |-> 0]
  /\ abort = ""
  /\ op = OpRecord("EntityFactory", Owner, 0, EmptyTree, EmptyName)
  /\ issued = <<>>
  /\ pushed = <<>>
  /\ pending_tickets = <<>>
  /\ swaps = 0
  /\ processed = <<>>
  /\ first_added = EmptyMap
  /\ last_registered = EmptyMap
  /\ added_order = <<>>
  /\ alive = EmptyMap

\* The state after construction and the configuration of a decoder.
InitDecoder == Init /\ loader_

\* Registry: the owning context registers Systems and definition types at
\* any time, creates entities from in-memory Blueprints and destroys them.
RegBlueprints == {<<1>>, <<3>>}

NextReg ==
  \/ \E system \in Systems : CallAddSystem(TypeOf(system), system)
  \/ \E system_type \in SystemTypes : CallAddSystem(system_type, NullSystem)
  \/ \E system_type \in SystemTypes, def_type \in {1, 2} :
       CallRegisterDef(system_type, def_type)
  \/ \E blueprint \in RegBlueprints : CallCreate_Blueprint(blueprint)
  \/ \E entity \in HeldEntities : CallDestroy(entity)
  \/ CallInitialize

SpecReg == InitDecoder /\ [][NextReg]_vars

\* Construction: the owning context sets the registry up, then creates
\* entities from BlueprintTrees, in memory and by name.  No definition type
\* is registered for def type 3, and def types 1 and 2 resolve only when
\* both their registrations were made.
NextBuild ==
  \/ /\ issued = <<>>
     /\ \E system \in {"A", "B"} : CallAddSystem(TypeOf(system), system)
  \/ /\ issued = <<>>
     /\ \E def_type \in {1, 2} : CallRegisterDef(def_type, def_type)
  \/ \E blueprint \in Trees : CallCreate_BlueprintTree(blueprint)
  \/ \E entity \in HeldEntities, blueprint \in Trees :
       CallCreate_Entity_BlueprintTree(entity, blueprint)
  \/ \E blueprint \in Blueprints : CallCreate_Blueprint(blueprint)
  \/ CallCreate_name(NameA)

SpecBuild == InitDecoder /\ [][NextBuild]_vars

\* Assets and provenance: after the same kind of setup the owning context
\* creates entities by name and from an in-memory tree, and destroys them.
NextAsset ==
  \/ /\ issued = <<>>
     /\ CallAddSystem(TypeOf("A"), "A")
  \/ /\ issued = <<>>
     /\ CallRegisterDef(1, 1)
  \/ \E name \in {NameA, NameM, NameN} : CallCreate_name(name)
  \/ \E entity \in HeldEntities, name \in {NameA, NameM} :
       CallCreate_Entity_name(entity, name)
  \/ \E entity \in HeldEntities :
       CallCreate_Entity_BlueprintTree(entity, Leaf(<<1, 3>>))
  \/ \E entity \in HeldEntities : CallDestroy(entity)

SpecAsset == InitDecoder /\ [][NextAsset]_vars

\* The state after construction when no decoder is configured, and the
\* operations of SpecAsset from it.
InitNoDecoder == Init /\ ~loader_

SpecNoDecoder == InitNoDecoder /\ [][NextAsset]_vars

\* Filename resolution: the owning context requests blueprints under the
\* names around the ".json" test, for a new entity and for an entity it holds.
ResolveNames == {NameA, NameJ, NameExt, NameDotless, NameCut, NameInfix}

NextResolve ==
  \/ /\ issued = <<>>
     /\ CallAddSystem(TypeOf("A"), "A")
  \/ \E name \in ResolveNames : CallCreate_name(name)
  \/ \E name \in ResolveNames : CallCreate_Entity_name(1, name)

SpecResolve == InitDecoder /\ [][NextResolve]_vars

\* Id allocation: every context runs Create() step by step, interleaved
\* with the other contexts' queueing calls and the owning context's drains,
\* which take the same lock.
NextIds ==
  \/ \E t \in Contexts : CreateLock(t)
  \/ \E t \in Contexts : CreateRead(t)
  \/ \E t \in Contexts : CreateWrite(t)
  \/ \E t \in Contexts : CreateReturn(t)
  \/ \E t \in Workers, entity \in HeldEntities \ {kNullEntity} : QueueLock(t, entity)
  \/ \E t \in Workers : QueuePush(t)
  \/ DrainLock
  \/ DrainSwap
  \/ DrainStep
  \/ DrainReturn

SpecIds == InitDecoder /\ [][NextIds]_vars

\* Deferred destruction: the owning context registers a System and creates
\* entities from Blueprints (an empty one, and one with a definition type no
\* one registered), and the null entity is destroyed and queued; then the
\* other contexts queue entities while the owning context drains the queue.
QueueBlueprints == {<<>>, <<3>>}

NextQueue ==
  \/ \E t \in Workers, entity \in HeldEntities \ {kNullEntity} : QueueLock(t, entity)
  \/ \E t \in Workers : QueuePush(t)
  \/ DrainLock
  \/ DrainSwap
  \/ DrainStep
  \/ DrainReturn
  \/ \E entity \in HeldEntities \ {kNullEntity} : CallbackQueueLock(entity)
  \/ CallbackQueuePush
  \/ /\ issued = <<>>
     /\ CallAddSystem(TypeOf("A"), "A")
  \/ /\ pushed = <<>> /\ swaps = 0
     /\ \E blueprint \in QueueBlueprints : CallCreate_Blueprint(blueprint)
  \/ /\ pushed = <<>> /\ swaps = 0
     /\ \E t \in Contexts : QueueNull(t)
  \/ /\ pushed = <<>> /\ swaps = 0
     /\ CallDestroy(kNullEntity)

SpecQueue == InitDecoder /\ [][NextQueue]_vars

(***************************************************************************)
(* Claims.                                                                 *)
(***************************************************************************)
\* The Systems registered in the system table.
RegisteredSystems == {systems_[k] : k \in DOMAIN systems_} \ {NullSystem}

\* The entries of sequence q that satisfy Test.
RECURSIVE SelectCalls(_, _, _)
SelectCalls(q, cb, entity) ==
  IF q = <<>> THEN <<>>
  ELSE IF Head(q)[1] = cb /\ Head(q)[3] = entity
    THEN <<Head(q)>> \o SelectCalls(Tail(q), cb, entity)
    ELSE SelectCalls(Tail(q), cb, entity)

CreateOps == {"Create(name)", "Create(entity,name)", "Create(Blueprint*)",
              "Create(BlueprintTree*)", "Create(entity,BlueprintTree*)"}
NamedCreateOps == {"Create(name)", "Create(entity,name)"}

\* The last step was a creation that returned a non-null entity.
Built ==
  abort = "" /\ op.name \in CreateOps /\ ret # NoRet /\ ret[1] # kNullEntity

\* The BlueprintTree the last creation was given, or decoded.
BuiltTree ==
  IF op.name \in NamedCreateOps
    THEN IF loader_ THEN Decode(LoadNow(ResolveFilename(op.bname)).data)
                    ELSE EmptyTree
    ELSE op.tree

\* The create_child_fn_ calls made for parent e, in call order.
RECURSIVE LinksOf(_, _)
LinksOf(q, e) ==
  IF q = <<>> THEN <<>>
  ELSE IF Head(q)[1] = e THEN <<Head(q)>> \o LinksOf(Tail(q), e)
                         ELSE LinksOf(Tail(q), e)

\* The entities of the subtree constructed under e (e included).
RECURSIVE Subtree(_)
Subtree(e) ==
  {e} \cup UNION {Subtree(links[i][2]) : i \in {j \in 1..Len(links) : links[j][1] = e}}

Positions(cb, e) ==
  {i \in 1..Len(calls) : calls[i][1] = cb /\ calls[i][3] = e}
PositionsIn(entities) ==
  {i \in 1..Len(calls) : calls[i][1] # "Destroy" /\ calls[i][3] \in entities}

\* A def type the callers registered to a system type under which they
\* added a System, and that System.
Resolvable(def_type) ==
  Has(last_registered, def_type) /\ Has(first_added, last_registered[def_type])
OwningSystem(def_type) == first_added[last_registered[def_type]]

\* The callbacks cb that entity e is due for the definitions defs.
RECURSIVE DueCalls(_, _, _)
DueCalls(cb, e, defs) ==
  IF defs = <<>> THEN <<>>
  ELSE (IF Resolvable(Head(defs))
          THEN << <<cb, OwningSystem(Head(defs)), e, Head(defs)>> >>
          ELSE <<>>) \o DueCalls(cb, e, Tail(defs))

\* The entities the last creation constructed, each with its blueprint.
NodesBuilt ==
  {<<ret[1], BuiltTree>>} \cup {<<links[i][2], links[i][3]>> : i \in 1..Len(links)}

\* C1: with the default child-creation wiring, the callbacks of every node
\* are ordered: all CreateComponent calls for the node's own definitions,
\* then each child's whole construction in authored order, and only then
\* all PostCreateComponent calls for the node's own definitions.
C1_ConstructionOrder ==
  Built =>
    \A node \in NodesBuilt :
      LET e == node[1]
          kids == LinksOf(links, e)
          creates == Positions("CreateComponent", e)
          posts == Positions("PostCreateComponent", e)
      IN /\ SelectCalls(calls, "CreateComponent", e)
              = DueCalls("CreateComponent", e, node[2].defs)
         /\ SelectCalls(calls, "PostCreateComponent", e)
              = DueCalls("PostCreateComponent", e, node[2].defs)
         /\ [k \in 1..Len(kids) |-> kids[k][3]] = node[2].children
         /\ \A i \in creates, j \in posts : i < j
         /\ \A k \in 1..Len(kids) :
              LET sub == PositionsIn(Subtree(kids[k][2]))
              IN /\ \A i \in creates, j \in sub : i < j
                 /\ \A i \in posts, j \in sub : j < i
                 /\ k < Len(kids) =>
                      \A i \in sub, j \in PositionsIn(Subtree(kids[k + 1][2])) : i < j

\* C1 witness: a node with two children was constructed, and the parent and
\* both children received callbacks.
C1_Witness ==
  /\ Built
  /\ Len(links) = 2 /\ links[1][1] = ret[1] /\ links[2][1] = ret[1]
  /\ Positions("CreateComponent", ret[1]) # {}
  /\ Positions("PostCreateComponent", ret[1]) # {}
  /\ Positions("PostCreateComponent", links[1][2]) # {}
  /\ Positions("PostCreateComponent", links[2][2]) # {}

\* C5: Create(name) for a blueprint that cannot be found returns the null
\* entity without allocating an id, invoking a callback or adding a
\* provenance entry; and an id that a creation allocated before it
\* returned the null entity is not in the provenance map.
C5_MissingBlueprint ==
  [][(op'.name \in CreateOps /\ abort' = "") =>
       /\ (op'.name = "Create(name)"
            /\ LoadNow(ResolveFilename(op'.bname)).size = 0)
           => /\ ret' = <<kNullEntity>>
              /\ entity_generator_' = entity_generator_
              /\ issued' = issued
              /\ calls' = <<>>
              /\ entity_to_blueprint_map_' = entity_to_blueprint_map_
       /\ ret' = <<kNullEntity>>
           => \A i \in (Len(issued) + 1)..Len(issued') :
                ~Has(entity_to_blueprint_map_', issued'[i])]_vars

\* C5 witness: Create(name) of a missing blueprint returned the null entity
\* in a factory that has entities and a System that would be called.
C5_Witness ==
  /\ op.name = "Create(name)" /\ op.bname = NameM
  /\ ret = <<kNullEntity>>
  /\ entity_generator_ > 0
  /\ DOMAIN entity_to_blueprint_map_ # {}
  /\ Resolvable(1)

\* C6: a blueprint with a definition that has no resolvable System is
\* still constructed: every resolvable definition of it gets CreateComponent
\* and PostCreateComponent from its System, in order, the unresolvable one
\* gets neither, the children are constructed, and the entity returned is
\* not null.
C6_PartialFailure ==
  (/\ abort = ""
   /\ op.name \in CreateOps
   /\ op.name \in {"Create(entity,name)", "Create(entity,BlueprintTree*)"}
        => op.entity # kNullEntity
   /\ op.name \in NamedCreateOps
        => LoadNow(ResolveFilename(op.bname)).data # NullData
   /\ \E i \in 1..Len(BuiltTree.defs) : ~Resolvable(BuiltTree.defs[i]))
  => /\ ret # NoRet /\ ret[1] # kNullEntity
     /\ SelectCalls(calls, "CreateComponent", ret[1])
          = DueCalls("CreateComponent", ret[1], BuiltTree.defs)
     /\ SelectCalls(calls, "PostCreateComponent", ret[1])
          = DueCalls("PostCreateComponent", ret[1], BuiltTree.defs)
     /\ \A i \in 1..Len(calls) :
          calls[i][3] = ret[1] => Resolvable(calls[i][4])
     /\ Len(LinksOf(links, ret[1])) = Len(BuiltTree.children)
     /\ "Unknown system" \in diag

\* C6 witness: a blueprint whose middle definition is unresolvable was
\* constructed, and the definitions before and after it got both callbacks.
C6_Witness ==
  /\ Built
  /\ BuiltTree.defs = <<1, 3, 2>>
  /\ Resolvable(1) /\ ~Resolvable(3) /\ Resolvable(2)
  /\ Len(SelectCalls(calls, "PostCreateComponent", ret[1])) = 2

\* C8: the asset loader is invoked at most once per resolved filename, also
\* when the first load produced a zero-size asset.
C8_LoadOncePerFilename == \A f \in Filenames : loads[f] <= 1

\* C8 witness: two live entities were created from the same blueprint name,
\* and a missing blueprint was requested while already cached.
C8_Witness ==
  /\ \E e1, e2 \in DOMAIN alive : e1 # e2 /\ alive[e1] = NameA /\ alive[e2] = NameA
  /\ loads[ResolveFilename(NameA)] = 1
  /\ Has(blueprints_, Hash(ResolveFilename(NameM)))
  /\ op.name = "Create(entity,name)" /\ op.bname = NameM

\* C9: between public operations the entity-to-blueprint-name map has an
\* entry for an entity exactly when it was constructed by a creation
\* overload and not destroyed since, never one for the null entity, and the
\* name recorded is the originating blueprint name ("" for an in-memory one).
C9_ProvenanceIffAlive ==
  (abort = "" /\ \A t \in Contexts : pc[t] = "idle") =>
    /\ entity_to_blueprint_map_ = alive
    /\ ~Has(entity_to_blueprint_map_, kNullEntity)

\* C7: in every reachable state GetSystem(D) resolves to the first non-null
\* System that was passed to AddSystem under the system type most recently
\* passed to RegisterDef for D (to no System when none was added under it).
C7_RegistryDeterminism ==
  \A def_type \in DOMAIN last_registered :
    LET system_type == last_registered[def_type]
        expected == IF Has(first_added, system_type)
                      THEN first_added[system_type]
                      ELSE NullSystem
    IN abort = "" => GetSystem(Snapshot, def_type).res = expected

\* C10: Destroy(e) for a non-null entity e removes e's provenance entry,
\* invokes Destroy(e) exactly once on every registered System, and leaves the
\* id counter, the registry mappings and the pending queue unchanged.
C10_DestroyCallsEverySystem ==
  [][(op'.name = "Destroy" /\ op'.entity # kNullEntity) =>
       /\ entity_to_blueprint_map_' = Erase(entity_to_blueprint_map_, op'.entity)
       /\ \A system \in RegisteredSystems :
            Cardinality({i \in 1..Len(calls') :
                           calls'[i] = <<"Destroy", system, op'.entity, 0>>}) = 1
       /\ Len(calls') = Cardinality(RegisteredSystems)
       /\ entity_generator_' = entity_generator_
       /\ systems_' = systems_
       /\ type_map_' = type_map_
       /\ pending_destroy_' = pending_destroy_]_vars


(***************************************************************************)
(* Deferred destruction and id allocation under the shared lock.           *)
(***************************************************************************)
\* The tickets (indices into pushed) a sequence of processed entries names.
Tickets(q) == {q[i][1] : i \in 1..Len(q)}

\* How many times entity occurs in a queue.
Count(q, entity) == Cardinality({i \in 1..Len(q) : q[i] = entity})

\* The tickets of the batch the running drain has taken and not yet popped.
InBatch == {local[Owner].tickets[i] : i \in 1..Len(local[Owner].tickets)}

StillPending == {pending_tickets[i] : i \in 1..Len(pending_tickets)}

\* C2: an entry queued from another context is processed by exactly one
\* drain, namely the first drain whose swap follows the push (the drain the
\* push races with when the push wins the lock, the next drain otherwise):
\* no entry is processed twice, no entry is both pending and taken, and every
\* entry is pending, in the running drain's batch, or processed.
C2_ExactlyOneDrain ==
  /\ \A i \in 1..Len(processed) :
       processed[i][2] = pushed[processed[i][1]].swaps + 1
  /\ \A i, j \in 1..Len(processed) :
       processed[i][1] = processed[j][1] => i = j
  /\ StillPending \cap (InBatch \cup Tickets(processed)) = {}
  /\ \A k \in 1..Len(pushed) :
       k \in StillPending \cup InBatch \cup Tickets(processed)

\* One entry was queued before the first drain and processed by it; another
\* was queued by another context while that drain was in its loop, and was
\* processed by the second drain.
C2_Witness ==
  \E i, j \in 1..Len(processed) :
    /\ processed[i][2] = 1
    /\ processed[j][2] = 2
    /\ pushed[processed[j][1]].owner_pc = "Drain:loop"
    /\ pushed[processed[j][1]].swaps = 1

\* C3: when a drain has returned, Destroy was invoked exactly once for every
\* entity id of the batch it took, and none of the batch's entries is pending.
C3_EachDestroyedOnce ==
  (pc[Owner] = "idle" /\ swaps >= 1) =>
    /\ \A i \in 1..Len(local[Owner].batch) :
         Count(local[Owner].destroyed, local[Owner].batch[i]) = 1
    /\ \A i \in 1..Len(processed) :
         processed[i][2] = swaps => processed[i][1] \notin StillPending

\* C4: the ids returned by Create(), in the order of the returns, are
\* strictly increasing (so no two calls return the same id), and none is the
\* null entity.
C4_IdsStrictlyIncreasing ==
  /\ \A i, j \in 1..Len(issued) : i < j => issued[i] < issued[j]
  /\ \A i \in 1..Len(issued) : issued[i] # kNullEntity

\* Two contexts are inside Create() at once (one holds the lock, the other
\* waits for it or has returned) after ids were returned, an entry was queued
\* and a drain swapped the queue.
C4_Witness ==
  /\ Len(issued) >= 2
  /\ swaps >= 1
  /\ pushed # <<>>
  /\ pc["w1"] = "Create:write"
  /\ op.name = "Create()" /\ op.ctx = "w2"

\* The entries queued while the drain numbered pushed[k].swaps was in its
\* loop, by another context or by a Destroy callback of that drain.
QueuedDuringLoop == {k \in 1..Len(pushed) : pushed[k].owner_pc # "idle"}

\* C11: while a drain is in its loop, where the Systems' Destroy callbacks
\* run, the draining context does not hold the lock, so another context that
\* is in no call can take it at once when no one else holds it; and an entry
\* queued during the loop (by another context or from inside a callback) is
\* not part of the running drain's batch: it stays pending until a later
\* drain takes it.
C11_LoopOutsideLock ==
  /\ pc[Owner] = "Drain:loop" => mutex_ # Owner
  /\ (pc[Owner] = "Drain:loop" /\ mutex_ = Free /\ abort = ""
        /\ Len(pushed) < MaxPushes) =>
       \A t \in Workers : pc[t] = "idle" =>
         \A entity \in HeldEntities \ {kNullEntity} : ENABLED QueueLock(t, entity)
  /\ \A k \in QueuedDuringLoop :
       /\ pushed[k].swaps >= 1
       /\ k \in InBatch => swaps > pushed[k].swaps
       /\ \A i \in 1..Len(processed) :
            processed[i][1] = k => processed[i][2] = pushed[k].swaps + 1

\* The first drain took one entry; a Destroy callback run by its loop queued
\* another, which the second drain destroyed.
C11_Witness ==
  \E i, j \in 1..Len(processed) :
    /\ processed[i][2] = 1
    /\ pushed[processed[j][1]].owner_pc = "Drain:callback"
    /\ pushed[processed[j][1]].swaps = 1
    /\ processed[j][2] = 2

\* C12: when Initialize() has returned, the calls it made are one Initialize
\* per registered System, in the order in which AddSystem registered them,
\* followed by the registry's dependency check; and with no System
\* registered the diagnostic was raised.
C12_InitializeInOrder ==
  (op.name = "Initialize" /\ abort = "") =>
    /\ calls = [i \in 1..Len(added_order) |-> <<"Initialize", added_order[i], 0, 0>>]
                \o <<<<"CheckAllDependencies", "registry", 0, 0>>>>
    /\ added_order = <<>> => "Call Initialize after creating Systems." \in diag

\* The filename the documentation gives for a blueprint name: the name
\* itself when its last five characters are ".json", else the name followed
\* by ".bin".
ExpectedFilename(name) ==
  IF Len(name) >= 5 /\ [i \in 1..5 |-> name[Len(name) - 5 + i]] = <<".", "j", "s", "o", "n">>
    THEN name
    ELSE name \o <<".", "b", "i", "n">>

\* C13: a name ending in ".json" resolves to itself and every other name to
\* the name with ".bin" appended ("a.json" to "a.json", "a" to "a.bin"); after
\* a request for a name the asset loader was asked for exactly that filename
\* and the cache holds the asset under the key of that filename, and the
\* cache never holds a key of anything but a resolved filename.
C13_FilenameResolution ==
  /\ \A name \in Names : ResolveFilename(name) = ExpectedFilename(name)
  /\ ResolveFilename(<<"a", ".", "j", "s", "o", "n">>) = <<"a", ".", "j", "s", "o", "n">>
  /\ ResolveFilename(<<"a">>) = <<"a", ".", "b", "i", "n">>
  /\ op.name \in NamedCreateOps =>
       /\ Has(blueprints_, Hash(ExpectedFilename(op.bname)))
       /\ loads[ExpectedFilename(op.bname)] = 1
  /\ DOMAIN blueprints_ \subseteq {Hash(ExpectedFilename(name)) : name \in Names}
  /\ \A f \in Filenames :
       loads[f] > 0 => \E name \in Names : f = ExpectedFilename(name)

\* Blueprints were requested under "a.json" and under "a": the cache holds
\* the keys of "a.json" and "a.bin", and not those of "a" or "a.json.bin".
C13_Witness ==
  /\ Has(blueprints_, Hash(NameJ)) /\ Has(blueprints_, Hash(NameA \o Bin))
  /\ ~Has(blueprints_, Hash(NameA)) /\ ~Has(blueprints_, Hash(NameJ \o Bin))
  /\ op.name \in NamedCreateOps /\ op.bname = NameCut

\* The positions in calls of the callbacks cb made on the entities given.
PositionsOf(cb, entities) ==
  {i \in 1..Len(calls) : calls[i][1] = cb /\ calls[i][3] \in entities}

\* C14 as stated: for every node, every CreateComponent call on the node or
\* one of its descendants precedes every PostCreateComponent call on an
\* entity of the node's subtree.
C14_SubtreeCreatesBeforeAnyPost ==
  Built =>
    \A node \in NodesBuilt :
      \A i \in PositionsOf("CreateComponent", Subtree(node[1])),
         j \in PositionsOf("PostCreateComponent", Subtree(node[1])) : i < j

\* C14 amended: for every node, every CreateComponent call on the node or
\* one of its descendants precedes every PostCreateComponent call on the
\* node itself.
C14_SubtreeCreatesBeforeOwnPost ==
  Built =>
    \A node \in NodesBuilt :
      \A i \in PositionsOf("CreateComponent", Subtree(node[1])),
         j \in PositionsOf("PostCreateComponent", {node[1]}) : i < j

\* A node with two children was constructed: the first child's post-create
\* hook ran before the second child's component creation, and the node's own
\* post-create hook ran after both.
C14_Witness ==
  /\ Built
  /\ Len(links) = 2 /\ links[1][1] = ret[1] /\ links[2][1] = ret[1]
  /\ \E i \in PositionsOf("PostCreateComponent", {links[1][2]}),
        j \in PositionsOf("CreateComponent", {links[2][2]}),
        k \in PositionsOf("PostCreateComponent", {ret[1]}) : i < j /\ j < k

\* C15: in every creation overload, an entity has its provenance entry by
\* the time its first CreateComponent call is made: no entity got
\* CreateComponent while it had no entry.
C15_ProvenanceBeforeComponents ==
  op.name \in CreateOps => unrecorded = {}

\* C16: with the counter an unsigned integer that wraps at MaxEntity + 1
\* and starts at the null entity, Create() never returns the null entity;
\* the increment that wraps the counter to the null value ends the process
\* without returning an id, after that no call returns anything, and no id
\* is returned twice.
C16_OverflowIsFatal ==
  [][/\ \A i \in 1..Len(issued') : issued'[i] # kNullEntity
     /\ \A i, j \in 1..Len(issued') : issued'[i] = issued'[j] => i = j
     /\ (entity_generator_ # kNullEntity /\ entity_generator_' = kNullEntity) =>
          (abort' = "CHECK_NE" /\ issued' = issued /\ ret' = ret)
     /\ abort # "" => (issued' = issued /\ ret' = ret)]_vars

\* Every id of the id space was returned, and the next Create() wrapped the
\* counter and ended the process.
C16_Witness ==
  /\ abort = "CHECK_NE"
  /\ entity_generator_ = kNullEntity
  /\ Len(issued) = MaxEntity

\* C17: a step that is Destroy(kNullEntity) or QueueForDestruction(kNullEntity)
\* leaves the provenance map, the pending queue, the id counter and the
\* registry as they were and makes no System callback; the queueing call
\* leaves the lock as it was, whoever holds it; and the pending queue and
\* the batch of a drain never hold the null entity.
C17_NullIsNoOp ==
  [][/\ (CallDestroy(kNullEntity) \/ \E t \in Contexts : QueueNull(t)) =>
          /\ entity_to_blueprint_map_' = entity_to_blueprint_map_
          /\ pending_destroy_' = pending_destroy_
          /\ entity_generator_' = entity_generator_
          /\ systems_' = systems_
          /\ type_map_' = type_map_
          /\ mutex_' = mutex_
          /\ abort' = abort
          /\ \A i \in 1..Len(calls') : calls'[i][1] # "Destroy"
     /\ CallDestroy(kNullEntity) => calls' = <<>>
     /\ (\E t \in Contexts : QueueNull(t)) => calls' = calls
     /\ \A i \in 1..Len(pending_destroy_') : pending_destroy_'[i] # kNullEntity
     /\ \A i \in 1..Len(local'[Owner].pending_destroy) :
          local'[Owner].pending_destroy[i] # kNullEntity]_vars

\* The owning context queued the null entity while another context held the
\* lock, in a factory with a registered System and a constructed entity.
C17_Witness ==
  /\ op.name = "QueueForDestruction" /\ op.entity = kNullEntity /\ op.ctx = Owner
  /\ mutex_ \in Workers
  /\ RegisteredSystems # {}
  /\ DOMAIN entity_to_blueprint_map_ # {}

\* The blueprint data found under a name: the asset is not empty and its
\* data is not null.
Found(name) ==
  LET asset == LoadNow(ResolveFilename(name))
  IN asset.size # 0 /\ asset.data # NullData

\* C18: with no decoder configured, a creation by name from found data (for
\* a non-null entity) returns the non-null entity, makes no CreateComponent
\* or PostCreateComponent call and creates no child, records the blueprint
\* name as the entity's provenance, and logs the diagnostic.
C18_NoDecoderEmptyTree ==
  (/\ ~loader_ /\ abort = ""
   /\ op.name \in NamedCreateOps
   /\ Found(op.bname)
   /\ op.name = "Create(entity,name)" => op.entity # kNullEntity)
  => /\ ret # NoRet /\ ret[1] # kNullEntity
     /\ op.name = "Create(entity,name)" => ret[1] = op.entity
     /\ calls = <<>>
     /\ links = <<>>
     /\ Has(entity_to_blueprint_map_, ret[1])
     /\ entity_to_blueprint_map_[ret[1]] = op.bname
     /\ "Unable to convert raw data to blueprint" \in diag

\* Without a decoder, by-name creations of a found blueprint whose decoded
\* tree would have called a registered System: for a new entity, and for an
\* entity the caller supplied.
C18_Witness ==
  /\ ~loader_ /\ abort = ""
  /\ op.name = "Create(entity,name)" /\ op.bname = NameA /\ op.entity = 2
  /\ ret = <<2>>
  /\ Has(alive, 1) /\ alive[1] = NameA
  /\ Resolvable(1)

\* C19: a creation makes CreateComponent calls only for entities that have
\* no provenance entry when the creation starts: no entity that is alive is
\* constructed again before it is destroyed.
C19_NoSecondConstruction ==
  [][op'.name \in CreateOps =>
       \A i \in 1..Len(calls') :
         calls'[i][1] = "CreateComponent" =>
           ~Has(entity_to_blueprint_map_, calls'[i][3])]_vars

\* C20: the system table holds exactly the Systems AddSystem registered (the
\* first non-null System per system type), the definition-type table holds
\* exactly the mappings RegisterDef made, no entry of the system table is a
\* null System, and no callback was invoked through a null System.
C20_RegistryWellFormed ==
  /\ systems_ = first_added
  /\ type_map_ = last_registered
  /\ \A type_id \in DOMAIN systems_ : systems_[type_id] # NullSystem
  /\ abort # "nullptr"

====
